---------------------------- MODULE Spec2Model ----------------------------
(***************************************************************************)
(* Streaming EMA engine of the crypto EMA-crossing bot (src/App.tsx,       *)
(* src/utils.ts, src/types.ts): seed initialisation of the instrument      *)
(* store, the per-tick update of the two EMAs, cross / touch detection,    *)
(* alert de-duplication, the bounded alert log and the life of the feed    *)
(* connection (open, close, reconnect timer, unmount).                     *)
(*                                                                         *)
(* Numbers.  JavaScript numbers are IEEE doubles.  They are modelled as    *)
(* fixed-point integers (one unit = 1/10000 of the quote currency); a      *)
(* product with the smoothing factor k = 2/(period+1) is rounded to the    *)
(* nearest unit, as a double operation is rounded to the nearest double.   *)
(* NaN and undefined are two values outside the price range, and every     *)
(* arithmetic operator and comparison treats them as JavaScript does.      *)
(*                                                                         *)
(* Strings.  Instrument labels are sequences of one-character strings so   *)
(* that String.prototype.toUpperCase is computed character by character.   *)
(***************************************************************************)
EXTENDS Integers, Sequences, FiniteSets, TLC

VARIABLES
    phase,          \* "init": initPairs is fetching; "live": feed connected;
                    \* "crashed": an exception left a state updater
    initIdx,        \* index into PAIRS of the instrument initPairs fetches next
    initialData,    \* the local initialData of initPairs
    pairsData,      \* React state pairsData: ticker -> PairStatus
    alerts,         \* React state alerts: newest first
    closureAlerts,  \* the binding `alerts` that ws.onmessage closes over
    closurePermission, \* the binding notificationPermission triggerAlert closes over
    now,            \* Date.now()
    ticks,          \* number of feed messages delivered so far
    warm,           \* number of steady messages of the long run (SpecLong)
    seeds,          \* per fetch of initPairs: was the response an array, and of
                    \* how many rows (history variable)
    last,           \* what the last delivered kline message did (history variable)
    mounted,        \* the component is mounted (its effect cleanup has not run)
    sockets,        \* the WebSockets connectWebSocket has created, in order of
                    \* creation, each with its readyState
    wsRef,          \* wsRef.current: index into sockets, 0 for null
    timers,         \* pending setTimeout(connectWebSocket, 5000): their due times
    isConnected,    \* React state isConnected
    cross,          \* inputs and results of the cross detection (SpecCross)
    closedByCleanup \* index of the socket the effect cleanup called close() on,
                    \* 0 while it has closed none (history variable)

vars == <<phase, initIdx, initialData, pairsData, alerts, closureAlerts,
          closurePermission, now, ticks, warm, seeds, last,
          mounted, sockets, wsRef, timers, isConnected, cross, closedByCleanup>>

---------------------------------------------------------------------------
(* Bounds of the model *)

MaxTicks == 2        \* feed messages of a run of Spec
MaxWarm == 52        \* steady messages at the start of a run of SpecLong
MaxTail == 1         \* arbitrary messages after them
MaxSockets == 3      \* sockets created in a run of SpecFeed
MaxFeedTicks == 1    \* feed messages of a run of SpecFeed

---------------------------------------------------------------------------
(* Program constants *)

FastPeriod == 20          \* calculateEMA(closes, 20), calculateSingleEMA(.., 20)
SlowPeriod == 100         \* calculateEMA(closes, 100), calculateSingleEMA(.., 100)
DedupWindowMs == 300000   \* Date.now() - lastAlert.timestamp < 300000
AlertCap == 50            \* .slice(0, 50)
HistoryCap == 200         \* if (newHistory.length > 200) newHistory.shift()
SeedLimit == 150          \* klines?...&limit=150
CandleMs == 300000        \* TIMEFRAME = '5m'
TouchNum == 15            \* threshold = newEma100 * 0.00015 = newEma100 * 15 / 100000
TouchDen == 100000
ReconnectMs == 5000       \* setTimeout(connectWebSocket, 5000)

NaN == -1                 \* the double NaN
Undefined == -2           \* the value undefined (a hole or an index past the end)

IsNumber(v) == v # NaN /\ v # Undefined

---------------------------------------------------------------------------
(* Strings: toUpperCase *)

LowerChars == <<"a","b","c","d","e","f","g","h","i","j","k","l","m",
                "n","o","p","q","r","s","t","u","v","w","x","y","z">>
UpperChars == <<"A","B","C","D","E","F","G","H","I","J","K","L","M",
                "N","O","P","Q","R","S","T","U","V","W","X","Y","Z">>

UpperChar(c) ==
    IF \E i \in DOMAIN LowerChars : LowerChars[i] = c
    THEN UpperChars[CHOOSE i \in DOMAIN LowerChars : LowerChars[i] = c]
    ELSE c

ToUpperCase(s) == [i \in DOMAIN s |-> UpperChar(s[i])]

(* SYMBOLS_MAP, restricted to two of its eleven entries: label -> ticker *)
BtcLabel == <<"b","t","c","u","s","d","t",".","p">>
EthLabel == <<"e","t","h","u","s","d","t",".","p">>
PAIRS == <<BtcLabel, EthLabel>>
SYMBOLS_MAP(rawSymbol) == IF rawSymbol = BtcLabel THEN "BTCUSDT" ELSE "ETHUSDT"
Tickers == {SYMBOLS_MAP(PAIRS[i]) : i \in DOMAIN PAIRS}

---------------------------------------------------------------------------
(* Arithmetic on numbers that may be NaN or undefined *)

RoundDiv(a, b) == (2 * a + b) \div (2 * b)

\* (currentPrice - prevEma) * k + prevEma with k = 2 / (period + 1)
calculateSingleEMA(currentPrice, prevEma, period) ==
    IF IsNumber(currentPrice) /\ IsNumber(prevEma)
    THEN RoundDiv(2 * (currentPrice - prevEma), period + 1) + prevEma
    ELSE NaN

\* data[i] of a JavaScript array (0-based i): undefined past the end
At(data, i) == IF i + 1 \in DOMAIN data THEN data[i + 1] ELSE Undefined

\* a + b of two values that may be NaN or undefined
Plus(a, b) == IF IsNumber(a) /\ IsNumber(b) THEN a + b ELSE NaN

\* sum += data[i] for i = lo .. hi-1, starting from 0.  The range is
\* summed by halves, which keeps the evaluation shallow; the sum is the same.
RECURSIVE SumRange(_, _, _)
SumRange(data, lo, hi) ==
    IF lo >= hi THEN 0
    ELSE IF hi = lo + 1 THEN Plus(0, At(data, lo))
    ELSE Plus(SumRange(data, lo, (lo + hi) \div 2),
              SumRange(data, (lo + hi) \div 2, hi))

\* currentEma = (data[i] - prevEma) * k + prevEma
CurrentEma(value, prevEma, period) ==
    IF IsNumber(value) /\ IsNumber(prevEma)
    THEN RoundDiv(2 * (value - prevEma), period + 1) + prevEma
    ELSE NaN

\* the loop for (i = period; i < data.length; i++) of calculateEMA, here for
\* i = lo .. hi-1; ema is the array built so far (TLA+ index i holds ema[i-1]).
\* The iterations run in order, first those below the middle of the range
\* (the test of Len(ema), never true, makes the array be evaluated on entry).
RECURSIVE EmaLoop(_, _, _, _, _)
EmaLoop(data, period, lo, hi, ema) ==
    IF lo >= hi \/ Len(ema) = 0 THEN ema
    ELSE IF hi = lo + 1
    THEN Append(ema, CurrentEma(data[lo + 1], ema[lo], period))
    ELSE EmaLoop(data, period, (lo + hi) \div 2, hi,
                 EmaLoop(data, period, lo, (lo + hi) \div 2, ema))

\* prevEma = sum / period
Mean(sum, period) == IF IsNumber(sum) THEN RoundDiv(sum, period) ELSE NaN

\* calculateEMA: the array ema, with holes (undefined) below index period-1
calculateEMA(data, period) ==
    EmaLoop(data, period, period, Len(data),
            [i \in 1..period |->
                IF i = period THEN Mean(SumRange(data, 0, period), period) ELSE Undefined])

---------------------------------------------------------------------------
(* Inputs of the environment, drawn from small sets *)

BasePrice == 20000

\* closes carried by feed messages: a large move down, no move, a small move up
Closes == {BasePrice - 1000, BasePrice, BasePrice + 20}

\* time that passes between two feed messages: inside and outside the window
Delays == {DedupWindowMs \div 2, DedupWindowMs}

\* results of Math.random().toString(36).substr(2, 9)
Tokens == {"k3x9q0a1z", "p07hd2m4c"}

\* Notification.permission when the component is first rendered
Permissions == {"granted", "default"}

\* one parsed row of the klines response: n rows, the last `raised` of them
\* closing a small move above the others
SeedRows(n, raised) ==
    [i \in 1..n |->
        LET c == IF i > n - raised THEN BasePrice + 20 ELSE BasePrice
        IN  [time |-> (i - 1) * CandleMs, open |-> c, high |-> c, low |-> c, close |-> c]]

\* what fetch(...) and response.json() give initPairs for one instrument
SeedResponses ==
    {[kind |-> "reject", rows |-> <<>>], [kind |-> "object", rows |-> <<>>]}
    \cup {[kind |-> "array", rows |-> SeedRows(SlowPeriod - 1, 0)],
          [kind |-> "array", rows |-> SeedRows(SlowPeriod, 0)],
          [kind |-> "array", rows |-> SeedRows(SeedLimit, 10)]}

LongSeedResponses ==
    {[kind |-> "array", rows |-> SeedRows(SeedLimit, 0)],
     [kind |-> "object", rows |-> <<>>]}

\* the kline event of a feed message for ticker s at time t
Kline(s, c, x, t) ==
    [e |-> "kline", s |-> s,
     k |-> [t |-> (t \div CandleMs) * CandleMs, o |-> c, h |-> c, l |-> c, c |-> c, x |-> x]]

StartTime == SeedLimit * CandleMs

NoTick == [seq |-> 0, symbol |-> "", known |-> FALSE, close |-> 0,
           isFinal |-> FALSE, prevEma20 |-> 0, prevEma100 |-> 0,
           wasAbove |-> FALSE, isAbove |-> FALSE,
           crossed |-> FALSE, isTouching |-> FALSE, isDuplicate |-> FALSE,
           signal |-> "none", recorded |-> 0, threw |-> FALSE,
           histLen |-> 0, alertsLen |-> 0]

\* the cross detection has not been applied
NoCross == [prevEma20 |-> 0, prevEma100 |-> 0, newEma20 |-> 0, newEma100 |-> 0,
            result |-> "unset", swapped |-> "unset"]

---------------------------------------------------------------------------
(* Initial state: the component has been rendered once, the mount effect   *)
(* has started initPairs.                                                  *)

Init ==
    /\ phase = "init"
    /\ initIdx = 1
    /\ initialData = <<>>
    /\ pairsData = <<>>
    /\ alerts = <<>>
    /\ closureAlerts = <<>>
    /\ closurePermission \in Permissions
    /\ now = StartTime
    /\ ticks = 0
    /\ warm = 0
    /\ seeds = <<>>
    /\ last = NoTick
    /\ mounted = TRUE
    /\ sockets = <<>>
    /\ wsRef = 0
    /\ timers = <<>>
    /\ isConnected = FALSE
    /\ cross = NoCross
    /\ closedByCleanup = 0

---------------------------------------------------------------------------
(* initPairs *)

\* the PairStatus built from a klines array
InitialStatus(rawSymbol, klines) ==
    LET closes == [i \in DOMAIN klines |-> klines[i].close]
        ema20Arr == calculateEMA(closes, FastPeriod)
        ema100Arr == calculateEMA(closes, SlowPeriod)
    IN  [symbol |-> rawSymbol,
         price |-> At(closes, Len(closes) - 1),
         ema20 |-> At(ema20Arr, Len(ema20Arr) - 1),
         ema100 |-> At(ema100Arr, Len(ema100Arr) - 1),
         lastTouch |-> "null",
         isTouching |-> FALSE,
         history |-> klines]

\* one iteration of the loop over PAIRS, with the response the fetch got
FetchPair(resp) ==
    /\ phase = "init"
    /\ initIdx <= Len(PAIRS)
    /\ LET rawSymbol == PAIRS[initIdx]
           symbol == SYMBOLS_MAP(rawSymbol)
       IN  initialData' =
               IF resp.kind = "array"
               THEN (symbol :> InitialStatus(rawSymbol, resp.rows)) @@ initialData
               ELSE initialData
    /\ initIdx' = initIdx + 1
    /\ seeds' = Append(seeds, [isArray |-> resp.kind = "array", len |-> Len(resp.rows)])
    /\ UNCHANGED <<phase, pairsData, alerts, closureAlerts, closurePermission,
                   now, ticks, warm, last,
                   mounted, sockets, wsRef, timers, isConnected, cross, closedByCleanup>>

\* WebSocket.prototype.close() on wsRef.current: a socket that is connecting
\* or open starts closing (its close event follows), a socket that is closing
\* or closed is left as it is; nothing when wsRef.current is null
CloseSocket(socks, ref) ==
    IF ref = 0
    THEN socks
    ELSE [socks EXCEPT ![ref] = IF @ \in {"connecting", "open"} THEN "closing" ELSE @]

\* connectWebSocket: closes wsRef.current, creates a socket and stores it in
\* wsRef.current (there is one connectWebSocket, that of the first render)
connectWebSocket ==
    /\ sockets' = Append(CloseSocket(sockets, wsRef), "connecting")
    /\ wsRef' = Len(sockets) + 1

\* setPairsData(initialData); connectWebSocket(); initPairs returns and its
\* local initialData goes out of scope.  initPairs runs to its end whether or
\* not the component is still mounted; a state setter of an unmounted
\* component does nothing.
FinishInit ==
    /\ phase = "init"
    /\ initIdx > Len(PAIRS)
    /\ pairsData' = IF mounted THEN initialData ELSE pairsData
    /\ initialData' = <<>>
    /\ phase' = "live"
    /\ connectWebSocket
    /\ UNCHANGED <<initIdx, alerts, closureAlerts, closurePermission,
                   now, ticks, warm, seeds, last,
                   mounted, timers, isConnected, cross, closedByCleanup>>

---------------------------------------------------------------------------
(* ws.onmessage and triggerAlert *)

\* a comparison with >= in place of >
Above_NonStrict(ema20, ema100) == IsNumber(ema20) /\ IsNumber(ema100) /\ ema20 >= ema100

\* prevEma20 > prevEma100, newEma20 > newEma100: false when either is NaN
Above(ema20, ema100) == IsNumber(ema20) /\ IsNumber(ema100) /\ ema20 > ema100

Abs(v) == IF v < 0 THEN 0 - v ELSE v

\* diff = Math.abs(newEma20 - newEma100); threshold = newEma100 * 0.00015;
\* diff <= threshold
Touching(newEma20, newEma100) ==
    /\ IsNumber(newEma20)
    /\ IsNumber(newEma100)
    /\ Abs(newEma20 - newEma100) * TouchDen <= newEma100 * TouchNum

\* lastAlert && lastAlert.symbol === current.symbol
\*           && Date.now() - lastAlert.timestamp < 300000, lastAlert = alerts[0]
IsDuplicate(log, current, t) ==
    /\ Len(log) > 0
    /\ log[1].symbol = current.symbol
    /\ t - log[1].timestamp < DedupWindowMs

\* the touch branch tested before the cross branch
SignalOf_TouchFirst(crossed, isAbove, isTouching, isDuplicate) ==
    IF (crossed \/ isTouching) /\ ~isDuplicate
    THEN IF isTouching
         THEN "touch"
         ELSE (IF isAbove THEN "bullish_cross" ELSE "bearish_cross")
    ELSE "none"

\* the type triggerAlert is called with, "none" when it is not called
SignalOf(crossed, isAbove, isTouching, isDuplicate) ==
    IF (crossed \/ isTouching) /\ ~isDuplicate
    THEN IF crossed
         THEN (IF isAbove THEN "bullish_cross" ELSE "bearish_cross")
         ELSE IF isTouching THEN "touch" ELSE "none"
    ELSE "none"

\* the cross the handler detects from the EMAs before and after a kline:
\* wasAbove = prevEma20 > prevEma100; isAbove = newEma20 > newEma100;
\* crossed = wasAbove !== isAbove; type = isAbove ? bullish : bearish
CrossOf(prevEma20, prevEma100, newEma20, newEma100) ==
    LET wasAbove == Above(prevEma20, prevEma100)
        isAbove == Above(newEma20, newEma100)
        crossed == wasAbove # isAbove
    IN  IF crossed
        THEN (IF isAbove THEN "bullish_cross" ELSE "bearish_cross")
        ELSE "none"

\* newAlert of triggerAlert
NewAlert(symbol, price, type, id, t) ==
    [id |-> id, symbol |-> ToUpperCase(symbol), timestamp |-> t,
     price |-> price, type |-> type]

\* Array.prototype.slice(0, n)
Slice(arr, n) == SubSeq(arr, 1, IF Len(arr) < n THEN Len(arr) ELSE n)

\* the log without the slice
RecordAlert_NoCap(prev, newAlert) == <<newAlert>> \o prev

\* the new alert put at the end of the log
RecordAlert_AtEnd(prev, newAlert) == Slice(prev \o <<newAlert>>, AlertCap)

\* setAlerts(prev => [newAlert, ...prev].slice(0, 50))
RecordAlert(prev, newAlert) == Slice(<<newAlert>> \o prev, AlertCap)

\* newHistory: the candle is pushed when the kline is final, the first one
\* shifted out when the length then exceeds 200
NewHistory(history, k) ==
    IF k.x
    THEN LET pushed == Append(history,
                 [time |-> k.t, open |-> k.o, high |-> k.h, low |-> k.l, close |-> k.c])
         IN  IF Len(pushed) > HistoryCap THEN Tail(pushed) ELSE pushed
    ELSE history

\* the price of the kline written to every entry of the store
Updated_SharedPrice(prev, symbol, k) ==
    LET current == prev[symbol]
        newEma20 == calculateSingleEMA(k.c, current.ema20, FastPeriod)
        newEma100 == calculateSingleEMA(k.c, current.ema100, SlowPeriod)
    IN  [s \in DOMAIN prev |->
            IF s = symbol
            THEN [current EXCEPT !.price = k.c,
                                 !.ema20 = newEma20,
                                 !.ema100 = newEma100,
                                 !.isTouching = Touching(newEma20, newEma100),
                                 !.history = NewHistory(current.history, k)]
            ELSE [prev[s] EXCEPT !.price = k.c]]

\* isTouching kept once it is set
Updated_StickyTouch(prev, symbol, k) ==
    LET current == prev[symbol]
        newEma20 == calculateSingleEMA(k.c, current.ema20, FastPeriod)
        newEma100 == calculateSingleEMA(k.c, current.ema100, SlowPeriod)
    IN  [prev EXCEPT ![symbol] =
            [current EXCEPT !.price = k.c,
                            !.ema20 = newEma20,
                            !.ema100 = newEma100,
                            !.isTouching = current.isTouching \/ Touching(newEma20, newEma100),
                            !.history = NewHistory(current.history, k)]]

\* the state the updater returns for a known instrument
Updated(prev, symbol, k) ==
    LET current == prev[symbol]
        newEma20 == calculateSingleEMA(k.c, current.ema20, FastPeriod)
        newEma100 == calculateSingleEMA(k.c, current.ema100, SlowPeriod)
    IN  [prev EXCEPT ![symbol] =
            [current EXCEPT !.price = k.c,
                            !.ema20 = newEma20,
                            !.ema100 = newEma100,
                            !.isTouching = Touching(newEma20, newEma100),
                            !.history = NewHistory(current.history, k)]]

\* the updater without the test of current: an entry is made for the ticker
ApplyTick_NoGuard(prev, msg) ==
    IF msg.s \notin DOMAIN prev
    THEN (msg.s :> [symbol |-> <<>>, price |-> msg.k.c, ema20 |-> NaN, ema100 |-> NaN,
                    lastTouch |-> "null", isTouching |-> FALSE, history |-> <<>>]) @@ prev
    ELSE Updated(prev, msg.s, msg.k)

\* the updater given to setPairsData: const current = prev[symbol];
\* if (!current) return prev; ... return {...prev, [symbol]: {...}}
ApplyTick(prev, msg) ==
    IF msg.s \notin DOMAIN prev THEN prev ELSE Updated(prev, msg.s, msg.k)

\* what the handler computes for a kline of a known instrument
Detection(current, k, t) ==
    LET newEma20 == calculateSingleEMA(k.c, current.ema20, FastPeriod)
        newEma100 == calculateSingleEMA(k.c, current.ema100, SlowPeriod)
        isTouching == Touching(newEma20, newEma100)
        wasAbove == Above(current.ema20, current.ema100)
        isAbove == Above(newEma20, newEma100)
        crossed == wasAbove # isAbove
        isDuplicate == IsDuplicate(closureAlerts, current, t)
    IN  [wasAbove |-> wasAbove, isAbove |-> isAbove, crossed |-> crossed,
         isTouching |-> isTouching, isDuplicate |-> isDuplicate,
         signal |-> SignalOf(crossed, isAbove, isTouching, isDuplicate)]

\* ws.onmessage for one message, delivered dt after the previous one; id is
\* the token Math.random gives, notifyThrows whether new Notification throws.
\* (The audio cue is inside try/catch and its promise has a catch handler, so
\* its failure changes nothing and is no input.)  The message is dispatched
\* by a socket that is open; the state setters of an unmounted component do
\* nothing, so a message after the unmount changes no state.
OnMessage(msg, id, notifyThrows, dt) ==
    /\ phase = "live"
    /\ mounted
    /\ \E i \in DOMAIN sockets : sockets[i] = "open"
    /\ now' = now + dt
    /\ ticks' = ticks + 1
    /\ UNCHANGED <<initIdx, initialData, closureAlerts, closurePermission, seeds,
                   mounted, sockets, wsRef, timers, isConnected, cross, closedByCleanup>>
    /\ IF msg.e # "kline"
       THEN UNCHANGED <<phase, pairsData, alerts, last>>
       ELSE IF msg.s \notin DOMAIN pairsData
       THEN /\ last' = [NoTick EXCEPT !.seq = ticks', !.symbol = msg.s,
                                      !.close = msg.k.c, !.isFinal = msg.k.x,
                                      !.alertsLen = Len(alerts)]
            /\ pairsData' = ApplyTick(pairsData, msg)
            /\ UNCHANGED <<phase, alerts>>
       ELSE LET current == pairsData[msg.s]
                d == Detection(current, msg.k, now')
                threw == d.signal # "none" /\ closurePermission = "granted" /\ notifyThrows
            IN  /\ last' = [seq |-> ticks', symbol |-> msg.s, known |-> TRUE,
                            close |-> msg.k.c, isFinal |-> msg.k.x,
                            prevEma20 |-> current.ema20, prevEma100 |-> current.ema100,
                            wasAbove |-> d.wasAbove, isAbove |-> d.isAbove,
                            crossed |-> d.crossed, isTouching |-> d.isTouching,
                            isDuplicate |-> d.isDuplicate, signal |-> d.signal,
                            recorded |-> IF d.signal # "none" /\ ~threw THEN 1 ELSE 0,
                            threw |-> threw,
                            histLen |-> Len(current.history),
                            alertsLen |-> Len(alerts)]
                /\ IF threw
                   THEN \* the exception leaves triggerAlert and the updater: the
                        \* update is never committed and the render fails, which
                        \* unmounts the component
                        /\ phase' = "crashed"
                        /\ UNCHANGED <<pairsData, alerts>>
                   ELSE /\ phase' = phase
                        /\ alerts' = IF d.signal # "none"
                                     THEN RecordAlert(alerts,
                                              NewAlert(current.symbol, msg.k.c, d.signal, id, now'))
                                     ELSE alerts
                        /\ pairsData' = ApplyTick(pairsData, msg)

---------------------------------------------------------------------------
(* The feed connection: socket events, the reconnect timer, the unmount *)

\* the connection of socket i is established: ws.onopen
SocketOpen(i) ==
    /\ sockets[i] = "connecting"
    /\ sockets' = [sockets EXCEPT ![i] = "open"]
    /\ isConnected' = IF mounted THEN TRUE ELSE isConnected
    /\ UNCHANGED <<phase, initIdx, initialData, pairsData, alerts, closureAlerts,
                   closurePermission, now, ticks, warm, seeds, last,
                   mounted, wsRef, timers, cross, closedByCleanup>>

\* the close event of socket i, after close() or when the connection fails or
\* is dropped: ws.onclose
SocketClose(i) ==
    /\ sockets[i] # "closed"
    /\ sockets' = [sockets EXCEPT ![i] = "closed"]
    /\ isConnected' = IF mounted THEN FALSE ELSE isConnected
    /\ timers' = Append(timers, now + ReconnectMs)
    /\ UNCHANGED <<phase, initIdx, initialData, pairsData, alerts, closureAlerts,
                   closurePermission, now, ticks, warm, seeds, last,
                   mounted, wsRef, cross, closedByCleanup>>

\* the oldest pending timer fires, 5000 ms after it was set or later, and
\* calls connectWebSocket
ReconnectTimer ==
    /\ Len(timers) > 0
    /\ Len(sockets) < MaxSockets
    /\ now' = IF now < Head(timers) THEN Head(timers) ELSE now
    /\ timers' = Tail(timers)
    /\ connectWebSocket
    /\ UNCHANGED <<phase, initIdx, initialData, pairsData, alerts, closureAlerts,
                   closurePermission, ticks, warm, seeds, last,
                   mounted, isConnected, cross, closedByCleanup>>

\* the component is unmounted and the cleanup of the mount effect runs:
\* if (wsRef.current) wsRef.current.close()
Unmount ==
    /\ mounted
    /\ mounted' = FALSE
    /\ sockets' = CloseSocket(sockets, wsRef)
    /\ closedByCleanup' = wsRef
    /\ UNCHANGED <<phase, initIdx, initialData, pairsData, alerts, closureAlerts,
                   closurePermission, now, ticks, warm, seeds, last,
                   wsRef, timers, isConnected, cross>>

---------------------------------------------------------------------------
(* Spec: every seed response, the connection opens and stays, a few        *)
(* arbitrary feed messages                                                 *)

Tick ==
    /\ ticks < MaxTicks
    /\ \E s \in Tickers, c \in Closes, x \in BOOLEAN, dt \in Delays,
          id \in Tokens, notifyThrows \in BOOLEAN :
            OnMessage(Kline(s, c, x, now + dt), id, notifyThrows, dt)
    /\ UNCHANGED warm

\* a message of the stream that is no kline event
OtherMessage ==
    /\ ticks < MaxTicks
    /\ \E dt \in Delays : OnMessage([e |-> "other"], "", FALSE, dt)
    /\ UNCHANGED warm

Next ==
    \/ \E resp \in SeedResponses : FetchPair(resp)
    \/ FinishInit
    \/ \E i \in DOMAIN sockets : SocketOpen(i)
    \/ Tick
    \/ OtherMessage

Spec == Init /\ [][Next]_vars

---------------------------------------------------------------------------
(* SpecLong: full seed histories, a long run of steady final klines (the   *)
(* close equals both EMAs, so every one of them is a touch), then a few    *)
(* arbitrary messages                                                      *)

WarmTick ==
    /\ warm < MaxWarm
    /\ ticks = warm
    /\ OnMessage(Kline("BTCUSDT", BasePrice, TRUE, now + DedupWindowMs),
                 "k3x9q0a1z", FALSE, DedupWindowMs)
    /\ warm' = warm + 1

TailTick ==
    /\ ticks - warm < MaxTail
    /\ \E s \in Tickers, c \in Closes, x \in BOOLEAN,
          id \in Tokens, notifyThrows \in BOOLEAN :
            OnMessage(Kline(s, c, x, now + DedupWindowMs), id, notifyThrows, DedupWindowMs)
    /\ UNCHANGED warm

NextLong ==
    \/ \E resp \in LongSeedResponses : FetchPair(resp)
    \/ FinishInit
    \/ \E i \in DOMAIN sockets : SocketOpen(i)
    \/ WarmTick
    \/ TailTick

SpecLong == Init /\ [][NextLong]_vars

---------------------------------------------------------------------------
(* SpecFeed: full seed histories, connections that open, fail, are dropped *)
(* and re-made, an unmount at any moment, and steady klines from whichever *)
(* socket is open                                                          *)

FeedTick ==
    /\ ticks < MaxFeedTicks
    /\ \E s \in Tickers, notifyThrows \in BOOLEAN :
            OnMessage(Kline(s, BasePrice, TRUE, now + DedupWindowMs),
                      "k3x9q0a1z", notifyThrows, DedupWindowMs)
    /\ UNCHANGED warm

NextFeed ==
    \/ \E resp \in LongSeedResponses : FetchPair(resp)
    \/ FinishInit
    \/ \E i \in DOMAIN sockets : SocketOpen(i)
    \/ \E i \in DOMAIN sockets : SocketClose(i)
    \/ ReconnectTimer
    \/ Unmount
    \/ FeedTick

SpecFeed == Init /\ [][NextFeed]_vars

---------------------------------------------------------------------------
(* SpecCross: the cross detection applied to every four EMA values of a    *)
(* small set, and to the same values with the two EMAs exchanged           *)

\* EMA values a store entry can hold: NaN (a seed shorter than the period)
\* and prices around the base price
EmaValues == {NaN, BasePrice - 1, BasePrice, BasePrice + 1}

InitCross ==
    /\ phase = "init"
    /\ initIdx = 1
    /\ initialData = <<>>
    /\ pairsData = <<>>
    /\ alerts = <<>>
    /\ closureAlerts = <<>>
    /\ closurePermission = "default"
    /\ now = StartTime
    /\ ticks = 0
    /\ warm = 0
    /\ seeds = <<>>
    /\ last = NoTick
    /\ mounted = TRUE
    /\ sockets = <<>>
    /\ wsRef = 0
    /\ timers = <<>>
    /\ isConnected = FALSE
    /\ closedByCleanup = 0
    /\ \E a, b, c, d \in EmaValues :
            cross = [NoCross EXCEPT !.prevEma20 = a, !.prevEma100 = b,
                                    !.newEma20 = c, !.newEma100 = d]

DetectCross ==
    /\ cross.result = "unset"
    /\ cross' = [cross EXCEPT
            !.result = CrossOf(cross.prevEma20, cross.prevEma100,
                               cross.newEma20, cross.newEma100),
            !.swapped = CrossOf(cross.prevEma100, cross.prevEma20,
                                cross.newEma100, cross.newEma20)]
    /\ UNCHANGED <<phase, initIdx, initialData, pairsData, alerts, closureAlerts,
                   closurePermission, now, ticks, warm, seeds, last,
                   mounted, sockets, wsRef, timers, isConnected, closedByCleanup>>

NextCross == DetectCross

SpecCross == InitCross /\ [][NextCross]_vars

---------------------------------------------------------------------------
(* Properties *)

\* the store entry of the instrument the last kline message was for
LastEntry == pairsData[last.symbol]

\* strict comparison of two EMA values, false when either is NaN
StrictlyAbove(a, b) == IsNumber(a) /\ IsNumber(b) /\ a > b

\* the last message was a kline, and the store entry of its instrument exists
LastKnown == last.seq > 0 /\ last.known

\* C1: a signal for instrument S is not recorded while the head of the alert
\* log is an alert of S less than 300,000 ms old; so two neighbouring entries
\* of the log that belong to the same instrument lie at least 300,000 ms apart
C1_DuplicateSuppressed ==
    \A i \in 1..(Len(alerts) - 1) :
        alerts[i].symbol = alerts[i + 1].symbol
            => alerts[i].timestamp - alerts[i + 1].timestamp >= DedupWindowMs

\* C2: a message records at most one alert; when the EMA ordering flipped the
\* recorded alert is a cross alert, and a touch alert is recorded only when
\* the ordering did not flip and the EMAs are within the touch band
C2_OneSignalPerTick ==
    [][alerts' # alerts =>
        /\ Len(alerts') = (IF Len(alerts) < AlertCap THEN Len(alerts) + 1 ELSE AlertCap)
        /\ SubSeq(alerts', 2, Len(alerts')) = SubSeq(alerts, 1, Len(alerts') - 1)
        /\ LET s == last'.symbol
               flipped == StrictlyAbove(pairsData[s].ema20, pairsData[s].ema100)
                            # StrictlyAbove(pairsData'[s].ema20, pairsData'[s].ema100)
           IN  /\ flipped => alerts'[1].type \in {"bullish_cross", "bearish_cross"}
               /\ alerts'[1].type = "touch" => ~flipped /\ pairsData'[s].isTouching
      ]_vars

\* C2 witness: a message that flipped the ordering inside the touch band
\* recorded a cross alert
C2_Witness ==
    /\ LastKnown
    /\ last.crossed /\ last.isTouching /\ last.recorded = 1
    /\ phase = "live"
    /\ alerts[1].type = "bullish_cross"

\* C3: a bullish_cross alert is recorded only by a message before which ema20
\* was not above ema100 and after which it is, a bearish_cross alert only by
\* one before which it was above and after which it is not, and none by a
\* message that leaves the strict ordering as it was
C3_CrossEdgeTriggered ==
    [][alerts' # alerts =>
        LET s == last'.symbol
            wasAbove == StrictlyAbove(pairsData[s].ema20, pairsData[s].ema100)
            isAbove == StrictlyAbove(pairsData'[s].ema20, pairsData'[s].ema100)
        IN  /\ alerts'[1].type = "bullish_cross" => ~wasAbove /\ isAbove
            /\ alerts'[1].type = "bearish_cross" => wasAbove /\ ~isAbove
            /\ wasAbove = isAbove => alerts'[1].type = "touch"
      ]_vars

\* C3 witness: the EMAs were exactly equal (not above), the message moved ema20
\* above ema100 and a bullish_cross alert was recorded
C3_Witness ==
    /\ LastKnown
    /\ IsNumber(last.prevEma20) /\ last.prevEma20 = last.prevEma100
    /\ last.recorded = 1
    /\ phase = "live"
    /\ alerts[1].type = "bullish_cross"
    /\ LastEntry.ema20 > LastEntry.ema100

\* C4: when the notification dispatch throws while an alert is recorded, the
\* message has the outcome of a successful dispatch: the instrument is updated
\* from it, the alert is at the head of the log and the feed goes on
C4_NotifyFailureHarmless ==
    (last.seq > 0 /\ last.threw) =>
        /\ phase = "live"
        /\ LastEntry.price = last.close
        /\ Len(alerts) > 0
        /\ alerts[1].price = last.close
        /\ alerts[1].type = last.signal

\* C5: after initialisation an instrument has an entry in the store exactly
\* when its seed fetch gave an array of at least 100 candles
C5_ShortSeedOmitted ==
    phase # "init" =>
        \A i \in DOMAIN PAIRS :
            SYMBOLS_MAP(PAIRS[i]) \in DOMAIN pairsData
                <=> (seeds[i].isArray /\ seeds[i].len >= SlowPeriod)

\* C6: every instrument in the store has a defined number as ema20 and ema100
C6_EmaDefined ==
    \A s \in DOMAIN pairsData :
        IsNumber(pairsData[s].ema20) /\ IsNumber(pairsData[s].ema100)

\* C6, for the instruments whose seed was sufficient: an instrument seeded
\* with at least 100 candles has defined EMAs in every state
C6_EmaDefinedWhenSeeded ==
    phase # "init" =>
        \A i \in DOMAIN PAIRS :
            (seeds[i].isArray /\ seeds[i].len >= SlowPeriod) =>
                /\ SYMBOLS_MAP(PAIRS[i]) \in DOMAIN pairsData
                /\ IsNumber(pairsData[SYMBOLS_MAP(PAIRS[i])].ema20)
                /\ IsNumber(pairsData[SYMBOLS_MAP(PAIRS[i])].ema100)

\* C7: the alert log never holds more than 50 entries; a recorded alert is
\* placed at the head, and the entries that were there follow it in their
\* order, all but the last one when the log already held 50
C7_AlertLogBound ==
    /\ [](Len(alerts) <= AlertCap)
    /\ [][alerts' # alerts =>
            /\ alerts'[1].timestamp = now' /\ alerts'[1].price = last'.close
            /\ IF Len(alerts) = AlertCap
               THEN /\ Len(alerts') = AlertCap
                    /\ \A i \in 1..(AlertCap - 1) : alerts'[i + 1] = alerts[i]
               ELSE Tail(alerts') = alerts
         ]_vars

\* C7 witness: an alert was recorded into a log that held 50 entries
C7_Witness ==
    /\ LastKnown
    /\ last.alertsLen = AlertCap
    /\ last.recorded = 1
    /\ Len(alerts) = AlertCap

\* C8: of two alerts in the log, the one nearer the head was recorded by the
\* message delivered later (messages are delivered at increasing times)
C8_AlertOrder ==
    \A i, j \in DOMAIN alerts :
        i < j => alerts[i].timestamp > alerts[j].timestamp

\* C8 witness: the log holds alerts of two different instruments
C8_Witness ==
    /\ Len(alerts) >= 2
    /\ alerts[1].symbol # alerts[2].symbol

\* C9: no history holds more than 200 candles, and a final kline of an
\* instrument in the store appends its candle, the first candle leaving when
\* the history already held 200
C9_HistoryBound ==
    /\ [](\A s \in DOMAIN pairsData : Len(pairsData[s].history) <= HistoryCap)
    /\ [][(last'.seq = ticks' /\ ticks' # ticks /\ last'.isFinal
              /\ last'.symbol \in DOMAIN pairsData) =>
            LET old == pairsData[last'.symbol].history
                new == pairsData'[last'.symbol].history
            IN  /\ new[Len(new)].close = last'.close
                /\ IF Len(old) = HistoryCap
                   THEN /\ Len(new) = HistoryCap
                        /\ \A i \in 1..(HistoryCap - 1) : new[i] = old[i + 1]
                   ELSE /\ Len(new) = Len(old) + 1
                        /\ SubSeq(new, 1, Len(old)) = old
         ]_vars

\* C9, for the messages whose update is committed (no exception left the
\* updater): the bound, the append and the eviction of the first candle
C9_HistoryOfCommittedTick ==
    /\ [](\A s \in DOMAIN pairsData : Len(pairsData[s].history) <= HistoryCap)
    /\ [][(last'.seq = ticks' /\ ticks' # ticks /\ last'.isFinal /\ ~last'.threw
              /\ last'.symbol \in DOMAIN pairsData) =>
            LET old == pairsData[last'.symbol].history
                new == pairsData'[last'.symbol].history
            IN  /\ new[Len(new)].close = last'.close
                /\ IF Len(old) = HistoryCap
                   THEN /\ Len(new) = HistoryCap
                        /\ \A i \in 1..(HistoryCap - 1) : new[i] = old[i + 1]
                   ELSE /\ Len(new) = Len(old) + 1
                        /\ SubSeq(new, 1, Len(old)) = old
         ]_vars

\* a final kline was applied to a history that held 200 candles
C9_EvictionReached ==
    /\ LastKnown
    /\ last.isFinal /\ ~last.threw
    /\ last.histLen = HistoryCap
    /\ Len(LastEntry.history) = HistoryCap

\* C10: a kline for a ticker that has no entry in the store changes neither
\* the store nor the alert log, and raises no error
C10_UnknownSymbolNoOp ==
    [][(last'.seq = ticks' /\ ticks' # ticks /\ last'.symbol \notin DOMAIN pairsData) =>
            /\ pairsData' = pairsData
            /\ alerts' = alerts
            /\ phase' = phase
      ]_vars

\* C10 witness: a kline arrived for a ticker outside the store while the store
\* holds another instrument and the log an alert
C10_Witness ==
    /\ last.seq > 0
    /\ last.seq = ticks
    /\ ~last.known
    /\ last.symbol \notin DOMAIN pairsData
    /\ DOMAIN pairsData # {}
    /\ Len(alerts) > 0

\* the last step delivered a kline of an instrument in the store and the
\* handler detected a cross or a touch
SignalStep ==
    /\ ticks' # ticks
    /\ last'.seq = ticks'
    /\ last'.known
    /\ (last'.crossed \/ last'.isTouching)

\* the head of the log does not stand in the way of a signal of instrument s
\* at time t: the log is empty, its head belongs to another instrument, or its
\* head is at least 300,000 ms old
HeadAllows(log, s, t) ==
    \/ Len(log) = 0
    \/ log[1].symbol # ToUpperCase(pairsData[s].symbol)
    \/ t - log[1].timestamp >= DedupWindowMs

\* C11: only the head of the log is looked at: a detected signal of S is
\* recorded whenever the log is empty, its head belongs to another instrument
\* or its head is at least 300,000 ms old, whatever lies further down the log
C11_HeadOnlyDedup ==
    [][(SignalStep /\ HeadAllows(alerts, last'.symbol, now')) =>
            /\ Len(alerts') > 0
            /\ alerts'[1].timestamp = now'
            /\ alerts'[1].symbol = ToUpperCase(pairsData[last'.symbol].symbol)
      ]_vars

\* C11, for the messages whose update is committed: every detected signal is
\* recorded at the head of the log, whatever the log holds
C11_CommittedSignalRecorded ==
    [][(SignalStep /\ ~last'.threw) =>
            /\ Len(alerts') > 0
            /\ alerts'[1].timestamp = now'
            /\ alerts'[1].symbol = ToUpperCase(pairsData[last'.symbol].symbol)
      ]_vars

\* a signal of S was recorded over a head of another instrument
C11_OtherHeadReached ==
    /\ LastKnown
    /\ last.recorded = 1
    /\ Len(alerts) >= 2
    /\ alerts[2].symbol # alerts[1].symbol

\* the kind of the signal the last kline gave, from the EMAs before and after it
LastKind ==
    IF StrictlyAbove(last.prevEma20, last.prevEma100)
           # StrictlyAbove(LastEntry.ema20, LastEntry.ema100)
    THEN (IF StrictlyAbove(LastEntry.ema20, LastEntry.ema100)
          THEN "bullish_cross" ELSE "bearish_cross")
    ELSE "touch"

\* C12: an alert added to the log carries the symbol field stored in the state
\* of the instrument whose kline triggered it (the instrument label, not the
\* ticker that keys the store), the close of that kline as price and the kind
\* of the detected signal
C12_AlertContent ==
    (LastKnown /\ last.recorded = 1) =>
        /\ alerts[1].symbol = LastEntry.symbol
        /\ alerts[1].price = last.close
        /\ alerts[1].type = LastKind

\* C12, with the symbol as triggerAlert writes it: the upper-cased label, which
\* differs from the stored symbol field
C12_AlertContentUpperCased ==
    (LastKnown /\ last.recorded = 1) =>
        /\ alerts[1].symbol = ToUpperCase(LastEntry.symbol)
        /\ alerts[1].symbol # LastEntry.symbol
        /\ alerts[1].price = last.close
        /\ alerts[1].type = LastKind

\* a bearish_cross alert was recorded
C12_RecordedReached ==
    /\ LastKnown
    /\ last.recorded = 1
    /\ alerts[1].type = "bearish_cross"

\* C13: no two entries of the alert log have the same id
C13_AlertIdsUnique ==
    \A i, j \in DOMAIN alerts : i # j => alerts[i].id # alerts[j].id

\* two alerts with different ids are in the log
C13_DistinctIdsReached ==
    /\ Len(alerts) >= 2
    /\ alerts[1].id # alerts[2].id

\* the cross of the opposite direction
Mirror(kind) ==
    IF kind = "bullish_cross" THEN "bearish_cross"
    ELSE IF kind = "bearish_cross" THEN "bullish_cross"
    ELSE kind

\* C14: for every four EMA values, exchanging the two EMAs turns a bullish
\* cross into a bearish cross, a bearish cross into a bullish cross and no
\* cross into no cross
C14_CrossSymmetric ==
    cross.result # "unset" => cross.swapped = Mirror(cross.result)

\* C14, away from ties: when the two EMAs are numbers and differ, both before
\* and after the kline, exchanging them mirrors the result
C14_CrossSymmetricNoTies ==
    (/\ cross.result # "unset"
     /\ IsNumber(cross.prevEma20) /\ IsNumber(cross.prevEma100)
     /\ IsNumber(cross.newEma20) /\ IsNumber(cross.newEma100)
     /\ cross.prevEma20 # cross.prevEma100
     /\ cross.newEma20 # cross.newEma100)
        => cross.swapped = Mirror(cross.result)

\* a bullish cross whose exchange is a bearish cross
C14_MirroredReached ==
    /\ cross.result = "bullish_cross"
    /\ cross.swapped = "bearish_cross"

\* the cross detection of the model's handler is CrossOf: a recorded cross
\* alert has the kind CrossOf gives for the EMAs before and after the kline
C14_HandlerUsesCrossOf ==
    (LastKnown /\ last.recorded = 1 /\ last.crossed) =>
        alerts[1].type = CrossOf(last.prevEma20, last.prevEma100,
                                 LastEntry.ema20, LastEntry.ema100)

\* the last kline was for an instrument in the store and its update was
\* committed
LastApplied == LastKnown /\ ~last.threw

\* C15: after a kline has been applied to an instrument, the stored isTouching
\* is true exactly when the stored ema20 and ema100 are numbers with
\* |ema20 - ema100| <= ema100 * 0.00015, whatever isTouching was before and
\* whether or not the kline crossed or recorded an alert
C15_TouchRecomputed ==
    LastApplied =>
        (LastEntry.isTouching <=>
            /\ IsNumber(LastEntry.ema20)
            /\ IsNumber(LastEntry.ema100)
            /\ Abs(LastEntry.ema20 - LastEntry.ema100) * TouchDen
                   <= LastEntry.ema100 * TouchNum)

\* C15 witness: the first kline of an instrument was a touch (isTouching
\* stored true, alert recorded), the second took the EMAs out of the band
\* without a signal and isTouching is false again
C15_Witness ==
    /\ LastApplied
    /\ last.seq = 2
    /\ last.signal = "none"
    /\ ~LastEntry.isTouching
    /\ Len(alerts) = 1
    /\ alerts[1].type = "touch"
    /\ alerts[1].symbol = ToUpperCase(LastEntry.symbol)

\* the last step delivered a kline of an instrument in the store
KnownStep ==
    /\ ticks' # ticks
    /\ last'.seq = ticks'
    /\ last'.known

\* the candle of the kline the last step delivered is the last of history new,
\* which is history old with that one candle appended (the first candle
\* dropped when that makes more than 200)
OneCandleAppended(old, new) ==
    /\ Len(new) > 0
    /\ new[Len(new)].close = last'.close
    /\ \/ Len(new) = Len(old) + 1 /\ SubSeq(new, 1, Len(old)) = old
       \/ /\ Len(old) = HistoryCap
          /\ Len(new) = HistoryCap
          /\ SubSeq(new, 1, HistoryCap - 1) = Tail(old)

\* the entry of instrument s is given the close of the kline as price, the
\* EMAs stepped with it and the band test of the new EMAs
EntryUpdated(s) ==
    /\ pairsData'[s].price = last'.close
    /\ pairsData'[s].ema20 = calculateSingleEMA(last'.close, pairsData[s].ema20, FastPeriod)
    /\ pairsData'[s].ema100 = calculateSingleEMA(last'.close, pairsData[s].ema100, SlowPeriod)
    /\ pairsData'[s].isTouching = Touching(pairsData'[s].ema20, pairsData'[s].ema100)

\* C16: a kline that is not final updates the price, ema20, ema100 and
\* isTouching of its instrument and leaves its history as it is; a final kline
\* appends exactly one candle to the history
C16_OnlyClosedCandles ==
    [][KnownStep =>
        /\ EntryUpdated(last'.symbol)
        /\ IF last'.isFinal
           THEN OneCandleAppended(pairsData[last'.symbol].history,
                                  pairsData'[last'.symbol].history)
           ELSE pairsData'[last'.symbol].history = pairsData[last'.symbol].history
      ]_vars

\* C16, for the klines whose update is committed
C16_CommittedOnlyClosedCandles ==
    [][(KnownStep /\ ~last'.threw) =>
        /\ EntryUpdated(last'.symbol)
        /\ IF last'.isFinal
           THEN OneCandleAppended(pairsData[last'.symbol].history,
                                  pairsData'[last'.symbol].history)
           ELSE pairsData'[last'.symbol].history = pairsData[last'.symbol].history
      ]_vars

\* a kline that is not final was applied and recorded an alert
C16_OpenCandleReached ==
    /\ LastApplied
    /\ ~last.isFinal
    /\ last.recorded = 1
    /\ Len(LastEntry.history) = last.histLen

\* the entry a kline with close c and final flag x, delivered at time t, makes
\* of an entry: a function of the entry and the kline alone
EntryAfter(entry, s, c, x, t) ==
    LET e20 == calculateSingleEMA(c, entry.ema20, FastPeriod)
        e100 == calculateSingleEMA(c, entry.ema100, SlowPeriod)
    IN  [symbol |-> entry.symbol, price |-> c, ema20 |-> e20, ema100 |-> e100,
         lastTouch |-> entry.lastTouch, isTouching |-> Touching(e20, e100),
         history |-> NewHistory(entry.history, Kline(s, c, x, t).k)]

\* C17: a kline of an instrument in the store gives that instrument the entry
\* that follows from its old entry and the kline alone, the same whether the
\* kline detected no signal, recorded an alert or had its signal suppressed
C17_UpdateIndependentOfAlerting ==
    [][KnownStep =>
        pairsData'[last'.symbol] =
            EntryAfter(pairsData[last'.symbol], last'.symbol, last'.close,
                       last'.isFinal, now')
      ]_vars

\* C17, for the klines whose update is committed
C17_CommittedUpdateIndependent ==
    [][(KnownStep /\ ~last'.threw) =>
        pairsData'[last'.symbol] =
            EntryAfter(pairsData[last'.symbol], last'.symbol, last'.close,
                       last'.isFinal, now')
      ]_vars

\* a kline was applied without a signal while the log holds an alert of an
\* earlier kline of the same instrument
C17_BothOutcomesReached ==
    /\ LastApplied
    /\ last.signal = "none"
    /\ LastEntry.price = last.close
    /\ Len(alerts) = 1
    /\ alerts[1].symbol = ToUpperCase(LastEntry.symbol)

\* no kline has its signal suppressed: the handler finds no duplicate (C1)
C17_NothingSuppressed == LastKnown => ~last.isDuplicate

\* C18: a feed message leaves the set of instruments of the store as it is,
\* and leaves the entry of every instrument other than the one its kline is
\* for unchanged in every field
C18_InstrumentIsolation ==
    [][ticks' # ticks =>
        /\ DOMAIN pairsData' = DOMAIN pairsData
        /\ \A b \in DOMAIN pairsData :
               (last'.seq # ticks' \/ b # last'.symbol) => pairsData'[b] = pairsData[b]
      ]_vars

\* C18 witness: the store holds two instruments, the last kline was applied to
\* one of them and the other has a different price
C18_Witness ==
    /\ LastApplied
    /\ last.seq = ticks
    /\ Cardinality(DOMAIN pairsData) = 2
    /\ LastEntry.price = last.close
    /\ \E b \in DOMAIN pairsData : b # last.symbol /\ pairsData[b].price # last.close

\* the sockets that are open
OpenSockets == {i \in DOMAIN sockets : sockets[i] = "open"}

\* C19: at most one of the sockets connectWebSocket has created is open at any
\* time, and once the effect cleanup has closed the socket no further socket
\* is created
C19_SingleConnection ==
    /\ [](Cardinality(OpenSockets) <= 1)
    /\ [][closedByCleanup # 0 => Len(sockets') = Len(sockets)]_vars

\* C19, its first half: at most one socket is open at any time, and it is the
\* one wsRef.current holds
C19_AtMostOneOpen ==
    /\ Cardinality(OpenSockets) <= 1
    /\ \A i \in OpenSockets : i = wsRef

\* a socket is open while an earlier one, closed by connectWebSocket or
\* dropped, is closing or closed
C19_ReconnectedReached ==
    /\ Len(sockets) >= 2
    /\ sockets[wsRef] = "open"
    /\ mounted

\* a socket created after the effect cleanup closed its predecessor is open
C19_OpenAfterUnmountReached ==
    /\ closedByCleanup # 0
    /\ \E i \in OpenSockets : i > closedByCleanup

=============================================================================
